---- MODULE Spec2Model ----
\* Model of src/net/endian.hpp: the network byte order type net_t<host_t>
\* (tcp_mpipe::net) and the Ethernet frame composer ethernet_send_frame
\* (tcp_mpipe).
\*
\* A host_t value is a sequence of sizeof(host_t) bytes, MOST significant byte
\* first (its base-256 digits).  Its image in memory depends on the byte order
\* of the host (hostLE), see ToMem.
EXTENDS Integers, Sequences, FiniteSets, TLC

VARIABLES
    hostLE,     \* __BYTE_ORDER == __LITTLE_ENDIAN on the build host
    ty,         \* host_t of the net_t<host_t> instance under study
    lhs,        \* first operand, a host_t value in host byte order
    rhs,        \* second operand, a host_t value in host byte order
    out,        \* last net_t operation applied: operands and result
    pc,         \* position of the core inside ethernet_send_frame
    calls,      \* number of calls of ethernet_send_frame started so far
    args,       \* arguments of the current call
    link_addr,  \* mpipe_env->link_addr
    bdesc,      \* local 'bdesc': the buffer allocated by the current call
    cursor,     \* local 'cursor' of ethernet_send_frame
    wcursor,    \* the cursor copy owned by the payload writer
    edesc,      \* local 'edesc'
    mem,        \* content of each hardware buffer
    cap,        \* size each buffer was allocated with
    owner,      \* who owns each buffer: "allocator", "core" or "hw"
    equeue,     \* mpipe_env->equeue: descriptors submitted, not yet sent
    result,     \* what the caller of the last call observed
    trace,      \* history: steps of the current call, in order
    regions,    \* history: regions reserved through the cursor, in order
    submitted,  \* history: every descriptor given to gxio_mpipe_equeue_put
    late,       \* history: buffer accesses by the core after the submit
    overrun     \* history: bytes written at or beyond the cursor capacity

vars == <<hostLE, ty, lhs, rhs, out, pc, calls, args, link_addr, bdesc,
          cursor, wcursor, edesc, mem, cap, owner, equeue, result,
          trace, regions, submitted, late, overrun>>

endianVars == <<hostLE, ty, lhs, rhs, out>>
frameVars == <<pc, calls, args, link_addr, bdesc, cursor, wcursor, edesc, mem,
               cap, owner, equeue, result, trace, regions, submitted,
               late, overrun>>

----------------------------------------------------------------------------
\* Bounds

\* Number of ramp patterns among the sample values of each width.
MaxSeed == 1

\* Largest payload_size given to ethernet_send_frame.
MaxPayload == 2

\* Largest sizeof (H) of a write_with<H> made by a payload writer.
MaxChunk == 2

\* Number of calls of ethernet_send_frame in a run.
MaxCalls == 2

\* Number of hardware buffers the allocator manages.
NumBuffers == 1

----------------------------------------------------------------------------
\* Bytes and fixed-width unsigned integers

Types == {"u8", "u16", "u32", "u64"}

\* sizeof (host_t)
SizeOf(t) == CASE t = "u8" -> 1 [] t = "u16" -> 2 [] t = "u32" -> 4
               [] t = "u64" -> 8

\* The sequence of e(1), ..., e(n), as a tuple.
Tuple(n, e(_)) == SubSeq([i \in 1..n |-> e(i)], 1, n)

Reverse(s) == LET at(i) == s[Len(s) + 1 - i] IN Tuple(Len(s), at)

\* Bytes of the object representation of value v, lowest address first.
ToMem(le, v) == IF le THEN Reverse(v) ELSE v

\* Value whose object representation is the byte sequence m.
FromMem(le, m) == IF le THEN Reverse(m) ELSE m

\* swap<uint8_t>(bytes[i], bytes[j]) on a 0-indexed byte array.
SwapBytes(bytes, i, j) ==
    LET at(k) == IF k = i + 1 THEN bytes[j + 1]
                 ELSE IF k = j + 1 THEN bytes[i + 1]
                 ELSE bytes[k]
    IN  Tuple(Len(bytes), at)

RECURSIVE SwapLoop(_, _)
\* for (int i = 0; i < sizeof (host_t) / 2; i++) swap(...)
SwapLoop(bytes, i) ==
    IF i < Len(bytes) \div 2
    THEN SwapLoop(SwapBytes(bytes, i, Len(bytes) - 1 - i), i + 1)
    ELSE bytes

\* change_endian_t<host_t>::_change_endian, the default bytes swapping.
_change_endian(le, value) ==
    IF le THEN FromMem(le, SwapLoop(ToMem(le, value), 0))
    ELSE value

\* <arpa/inet.h>: 16 bits conversions.
htons(le, host) == IF le THEN <<host[2], host[1]>> ELSE host
ntohs(le, net) == IF le THEN <<net[2], net[1]>> ELSE net

\* <arpa/inet.h>: 32 bits conversions.
htonl(le, host) == IF le THEN <<host[4], host[3], host[2], host[1]>> ELSE host
ntohl(le, net) == IF le THEN <<net[4], net[3], net[2], net[1]>> ELSE net

\* change_endian_t<host_t>::to_network, with its two specialisations.
to_network(le, t, host) ==
    CASE t = "u16" -> htons(le, host)
      [] t = "u32" -> htonl(le, host)
      [] OTHER -> _change_endian(le, host)

\* change_endian_t<host_t>::to_host, with its two specialisations.
to_host(le, t, net) ==
    CASE t = "u16" -> ntohs(le, net)
      [] t = "u32" -> ntohl(le, net)
      [] OTHER -> _change_endian(le, net)

RECURSIVE AddCarry(_, _, _, _)
\* Digits i..1 (from the least significant one, at Len) of a + b + carry.
AddCarry(a, b, i, carry) ==
    IF i = 0 THEN <<>>
    ELSE LET s == a[i] + b[i] + carry
         IN  Append(AddCarry(a, b, i - 1, s \div 256), s % 256)

\* a + b in host_t: the sum modulo 2^(8 * sizeof (host_t)).
HostAdd(a, b) == AddCarry(a, b, Len(a), 0)

RECURSIVE ToNat(_)
\* The number a value denotes, for a value below 2^31.
ToNat(v) == IF v = <<>> THEN 0
            ELSE 256 * ToNat(SubSeq(v, 1, Len(v) - 1)) + v[Len(v)]

RECURSIVE SubBorrow(_, _, _, _)
SubBorrow(a, b, i, borrow) ==
    IF i = 0 THEN <<>>
    ELSE LET d == a[i] - b[i] - borrow
         IN  Append(SubBorrow(a, b, i - 1, IF d < 0 THEN 1 ELSE 0),
                    (d + 256) % 256)

\* a - b in host_t: the difference modulo 2^(8 * sizeof (host_t)).
HostSub(a, b) == SubBorrow(a, b, Len(a), 0)

----------------------------------------------------------------------------
\* net_t<host_t>: a value is the record [net |-> bytes of the 'net' field].

\* net_t(host_t host)
net_t(le, t, host) == [net |-> to_network(le, t, host)]

\* Faulty host(): the stored bits, returned without conversion.
host_raw(le, t, x) == x.net

\* net_t::host()
host(le, t, x) == to_host(le, t, x.net)

\* net_t::from_net()
from_net(_net) == [net |-> _net]

\* operator==(this_t, this_t) and operator!=(this_t, this_t)
eq_net_net(x, y) == x.net = y.net
ne_net_net(x, y) == x.net /= y.net

\* Faulty operator==(this_t, host_t): compares the stored bits with the host
\* value.
eq_net_host_raw(le, t, x, b) == x.net = b

\* operator==(this_t, host_t) and operator!=(this_t, host_t)
eq_net_host(le, t, x, b) == host(le, t, x) = b
ne_net_host(le, t, x, b) == host(le, t, x) /= b

\* operator==(host_t, this_t) and operator!=(host_t, this_t)
eq_host_net(le, t, a, y) == a = host(le, t, y)
ne_host_net(le, t, a, y) == a /= host(le, t, y)

\* Faulty operator+(this_t, this_t): adds the stored network order bits.
add_net_net_raw(le, t, x, y) == [net |-> HostAdd(x.net, y.net)]

\* operator+ in its three forms
add_net_net(le, t, x, y) ==
    net_t(le, t, HostAdd(host(le, t, x), host(le, t, y)))
add_net_host(le, t, x, b) == net_t(le, t, HostAdd(host(le, t, x), b))
add_host_net(le, t, a, y) == net_t(le, t, HostAdd(a, host(le, t, y)))

\* operator- in its three forms
sub_net_net(le, t, x, y) ==
    net_t(le, t, HostSub(host(le, t, x), host(le, t, y)))
sub_net_host(le, t, x, b) == net_t(le, t, HostSub(host(le, t, x), b))
sub_host_net(le, t, a, y) == net_t(le, t, HostSub(a, host(le, t, y)))

----------------------------------------------------------------------------
\* Sample values of each width

Zero(w) == LET at(i) == 0 IN Tuple(w, at)
AllOnes(w) == LET at(i) == 255 IN Tuple(w, at)
Unit(w, p, v) == LET at(i) == IF i = p THEN v ELSE 0 IN Tuple(w, at)
Ramp(w, k) == LET at(i) == (16 * k + i) % 256 IN Tuple(w, at)
HighRamp(w, k) == LET at(i) == 255 - ((16 * k + i) % 256) IN Tuple(w, at)

Values(t) ==
    LET w == SizeOf(t)
    IN  {Zero(w), AllOnes(w)}
        \cup {Unit(w, p, v) : p \in 1..w, v \in {1, 128, 255}}
        \cup {Ramp(w, k) : k \in 0..MaxSeed}
        \cup {HighRamp(w, k) : k \in 0..MaxSeed}

----------------------------------------------------------------------------
\* State of the frame composer before any call (shared by both specifications)

NoOut == [op |-> "none", res |-> <<>>]

----------------------------------------------------------------------------
\* Specification of net_t<host_t>: every operation applied to sample operands
\* on a host of either byte order.

\* The record of an operation applied to the operands: its name and result.
Applied(name, r) == [op |-> name, res |-> r]

\* What an operation of net_t leaves alone.
operandVars == <<hostLE, ty, lhs, rhs, frameVars>>

\* net_t(a).host()
CallHost ==
    /\ out' = Applied("host", host(hostLE, ty, net_t(hostLE, ty, lhs)))
    /\ UNCHANGED operandVars

\* net_t::from_net(a).net
CallFromNet ==
    /\ out' = Applied("from_net", from_net(lhs).net)
    /\ UNCHANGED operandVars

\* net_t(a) == net_t(b)
CallEqNetNet ==
    /\ out' = Applied("eq_net_net",
                      eq_net_net(net_t(hostLE, ty, lhs),
                                 net_t(hostLE, ty, rhs)))
    /\ UNCHANGED operandVars

\* net_t(a) != net_t(b)
CallNeNetNet ==
    /\ out' = Applied("ne_net_net",
                      ne_net_net(net_t(hostLE, ty, lhs),
                                 net_t(hostLE, ty, rhs)))
    /\ UNCHANGED operandVars

\* net_t(a) == b
CallEqNetHost ==
    /\ out' = Applied("eq_net_host",
                         eq_net_host(hostLE, ty, net_t(hostLE, ty, lhs), rhs))
    /\ UNCHANGED operandVars

\* net_t(a) != b
CallNeNetHost ==
    /\ out' = Applied("ne_net_host",
                         ne_net_host(hostLE, ty, net_t(hostLE, ty, lhs), rhs))
    /\ UNCHANGED operandVars

\* a == net_t(b)
CallEqHostNet ==
    /\ out' = Applied("eq_host_net",
                         eq_host_net(hostLE, ty, lhs, net_t(hostLE, ty, rhs)))
    /\ UNCHANGED operandVars

\* a != net_t(b)
CallNeHostNet ==
    /\ out' = Applied("ne_host_net",
                         ne_host_net(hostLE, ty, lhs, net_t(hostLE, ty, rhs)))
    /\ UNCHANGED operandVars

\* (net_t(a) + net_t(b)).net
CallAddNetNet ==
    /\ out' = Applied("add_net_net",
                         add_net_net(hostLE, ty, net_t(hostLE, ty, lhs),
                                     net_t(hostLE, ty, rhs)).net)
    /\ UNCHANGED operandVars

\* (net_t(a) + b).net
CallAddNetHost ==
    /\ out' = Applied("add_net_host",
                      add_net_host(hostLE, ty, net_t(hostLE, ty, lhs), rhs).net)
    /\ UNCHANGED operandVars

\* (a + net_t(b)).net
CallAddHostNet ==
    /\ out' = Applied("add_host_net",
                      add_host_net(hostLE, ty, lhs, net_t(hostLE, ty, rhs)).net)
    /\ UNCHANGED operandVars

\* (net_t(a) - net_t(b)).net
CallSubNetNet ==
    /\ out' = Applied("sub_net_net",
                         sub_net_net(hostLE, ty, net_t(hostLE, ty, lhs),
                                     net_t(hostLE, ty, rhs)).net)
    /\ UNCHANGED operandVars

\* (net_t(a) - b).net
CallSubNetHost ==
    /\ out' = Applied("sub_net_host",
                      sub_net_host(hostLE, ty, net_t(hostLE, ty, lhs), rhs).net)
    /\ UNCHANGED operandVars

\* (a - net_t(b)).net
CallSubHostNet ==
    /\ out' = Applied("sub_host_net",
                      sub_host_net(hostLE, ty, lhs, net_t(hostLE, ty, rhs)).net)
    /\ UNCHANGED operandVars

----------------------------------------------------------------------------
\* Ethernet: constants and sample arguments

\* sizeof (ether_addr)
ETHER_ADDR_LEN == 6

\* sizeof (ether_header)
ETHER_HDR_LEN == 14

BROADCAST_ETHER_ADDR == <<255, 255, 255, 255, 255, 255>>

Buffers == 1..NumBuffers

\* What a buffer descriptor that has not been assigned designates: no buffer
\* of the pool.
NoBuffer == 0

\* Content of a buffer byte the core has not written (no byte value).
Stale == -1

\* What a caller sends: destination, ethertype (host order), payload bytes.
Scenarios ==
    { [dst |-> <<170, 187, 204, 221, 238, 255>>, ethertype |-> <<8, 0>>,
       first |-> 69, step |-> 187],
      [dst |-> BROADCAST_ETHER_ADDR, ethertype |-> <<8, 6>>,
       first |-> 0, step |-> 1] }

LinkAddrs == { <<17, 34, 51, 68, 85, 102>> }

\* sizeof (size_t)
SizeBytes == 8

\* The size_t of value n, for n below 2^16 (most significant byte first, as
\* the host_t values).
SizeT(n) ==
    LET at(i) == IF i = SizeBytes THEN n % 256
                 ELSE IF i = SizeBytes - 1 THEN (n \div 256) % 256
                 ELSE 0
    IN  Tuple(SizeBytes, at)

SIZE_MAX == LET at(i) == 255 IN Tuple(SizeBytes, at)

\* Payload sizes SIZE_MAX - k whose sum with sizeof (ether_header) does not
\* fit a size_t.
WrapOffsets == {5, 13}

\* The payload_size a caller gives: small ones, and ones near SIZE_MAX.
PayloadSizes ==
    {SizeT(n) : n \in 0..MaxPayload}
        \cup {HostSub(SIZE_MAX, SizeT(k)) : k \in WrapOffsets}

\* i-th byte (from 0) the payload writer of scenario scn produces.
PayloadByte(scn, i) == (scn.first + i * scn.step) % 256

\* Bytes i .. i + n - 1 of that payload.
PayloadBytes(scn, i, n) ==
    LET at(k) == PayloadByte(scn, i + k - 1) IN Tuple(n, at)

----------------------------------------------------------------------------
\* Collaborators of the frame composer

\* A gxio_mpipe_bdesc_t that has not been assigned.
NoBdesc == [buf |-> NoBuffer, hwb |-> 0, c |-> "none"]

\* mpipe_alloc_buffer returns a gxio_mpipe_bdesc_t by value: the descriptor of
\* the first free buffer, a buffer the hardware manages (hwb).  When no
\* buffer is free it fails with an error that propagates out of its caller.
mpipe_alloc_buffer(own) ==
    IF \E b \in Buffers : own[b] = "allocator"
    THEN [raised |-> FALSE,
          bdesc |-> [buf |-> CHOOSE b \in Buffers :
                               /\ own[b] = "allocator"
                               /\ \A x \in Buffers :
                                     own[x] = "allocator" => b <= x,
                     hwb |-> 1, c |-> "valid"]]
    ELSE [raised |-> TRUE, bdesc |-> NoBdesc]

\* buffer_cursor_t(&bdesc, size): a cursor at the start of the buffer.
buffer_cursor_t(b, size) == [buf |-> b, offset |-> 0, capacity |-> size]

\* A cursor together with the memory it writes into.
\* over: number of bytes stored at or beyond the capacity.
CursorState(cur, m, over) ==
    [cur |-> cur, region |-> [start |-> cur.offset, size |-> 0], m |-> m,
     over |-> over]

\* buffer_cursor_t::write_with<H>, with sizeof (H) = Len(bytes) and a writer
\* storing 'bytes': stores them at the offset, without any bounds check, and
\* returns the cursor advanced by sizeof (H).  m is the memory from the
\* address of the buffer on: bytes stored beyond the buffer lie after it.
write_with(st, bytes) ==
    LET off == st.cur.offset
        n   == Len(bytes)
        len == IF off + n > Len(st.m) THEN off + n ELSE Len(st.m)
    IN  [cur  |-> [st.cur EXCEPT !.offset = off + n],
         region |-> [start |-> off, size |-> n],
         m    |-> LET at(k) == IF k > off /\ k <= off + n
                                  THEN bytes[k - off]
                               ELSE IF k <= Len(st.m) THEN st.m[k]
                               ELSE Stale
                  IN  Tuple(len, at),
         over |-> st.over
                  + Cardinality({k \in 1..n : off + k > st.cur.capacity})]

\* gxio_mpipe_edesc_set_bdesc: sets the buffer fields of the descriptor from
\* the buffer descriptor, 'hwb' included.
gxio_mpipe_edesc_set_bdesc(ed, b) == [ed EXCEPT !.buf = b.buf, !.hwb = b.hwb]

----------------------------------------------------------------------------
\* The frame composer

\* The statements of ethernet_send_frame, in the order of its body: where the
\* core is after the statement at 'p'.
NextPc(p) ==
    CASE p = "alloc" -> "cursor"
      [] p = "cursor" -> "header"
      [] p = "header" -> "payload"
      [] p = "payload" -> "writing"
      [] p = "writing" -> "edesc"
      [] p = "edesc" -> "set_bdesc"
      [] p = "set_bdesc" -> "put"
      [] p = "put" -> "idle"

\* edesc = { 0 }; edesc.bound = 1; edesc.hwb = 1, edesc.xfer_size = frame_size;
EdescFor(frame_size) ==
    [bound |-> 1, hwb |-> 1, xfer_size |-> frame_size, buf |-> 0]

\* frame_size = headers_size + payload_size, a sum of size_t: modulo
\* 2^(8 * sizeof (size_t)).
FrameSize(payload_size) == HostAdd(SizeT(ETHER_HDR_LEN), payload_size)

\* Faulty header: the ethertype is stored byte swapped.
HeaderBytesSwapped(le, link, dst, ether_type) ==
    SubSeq(dst, 1, ETHER_ADDR_LEN) \o SubSeq(link, 1, ETHER_ADDR_LEN)
        \o Reverse(ToMem(le, ether_type))

\* The lambda of _ethernet_write_header: the bytes it stores in *hdr.
HeaderBytes(le, link, dst, ether_type) ==
    SubSeq(dst, 1, ETHER_ADDR_LEN) \o SubSeq(link, 1, ETHER_ADDR_LEN)
        \o ToMem(le, ether_type)

\* Faulty _ethernet_write_header: returns the cursor it was given.
_ethernet_write_header_stay(le, link, st, dst, ether_type) ==
    [write_with(st, SubSeq(dst, 1, ETHER_ADDR_LEN)
                    \o SubSeq(link, 1, ETHER_ADDR_LEN)
                    \o ToMem(le, ether_type))
     EXCEPT !.cur = st.cur]

\* _ethernet_write_header
_ethernet_write_header(le, link, st, dst, ether_type) ==
    write_with(st, HeaderBytes(le, link, dst, ether_type))

\* gxio_mpipe_edesc_t edesc = { 0 }
NoEdesc == [bound |-> 0, hwb |-> 0, xfer_size |-> 0, buf |-> 0]

NoArgs == [payload_size |-> SizeT(0), dst |-> <<>>, ether_type |-> <<>>,
           scn |-> [dst |-> <<>>, ethertype |-> <<>>, first |-> 0,
                    step |-> 0]]

NoCursor == buffer_cursor_t(NoBuffer, 0)

\* The cursor state of the buffer the cursor 'cur' points into.
StateOf(cur) == CursorState(cur, mem[cur.buf], overrun)

\* The effect on the buffers of a write through a cursor, 'st' being the
\* state the write produced.
Stored(st) ==
    /\ mem' = [mem EXCEPT ![st.cur.buf] = st.m]
    /\ overrun' = st.over
    /\ late' = (late \/ owner[st.cur.buf] /= "core")

\* A caller enters ethernet_send_frame; 'dst' and 'ether_type' are given in
\* network byte order.
Call ==
    /\ pc = "idle"
    /\ calls < MaxCalls
    /\ \E ps \in PayloadSizes, scn \in Scenarios :
          args' = [payload_size |-> ps, dst |-> scn.dst,
                   ether_type |-> net_t(hostLE, "u16", scn.ethertype).net,
                   scn |-> scn]
    /\ calls' = calls + 1
    /\ pc' = "alloc"
    /\ result' = "pending"
    /\ trace' = <<>>
    /\ regions' = <<>>
    /\ bdesc' = NoBdesc
    /\ cursor' = NoCursor
    /\ wcursor' = NoCursor
    /\ edesc' = NoEdesc
    /\ overrun' = 0
    /\ late' = FALSE
    /\ UNCHANGED <<endianVars, link_addr, mem, cap, owner, equeue,
                   submitted>>

\* Faulty allocation step: the failure of the allocator is ignored and the
\* call goes on with a buffer that is not free.
AllocBufferUnchecked ==
    /\ pc = "alloc"
    /\ LET r    == mpipe_alloc_buffer(owner)
           size == ToNat(FrameSize(args.payload_size))
           got  == IF r.raised
                   THEN [buf |-> CHOOSE x \in Buffers : TRUE, hwb |-> 1,
                         c |-> "valid"]
                   ELSE r.bdesc
       IN  /\ bdesc' = got
           /\ owner' = [owner EXCEPT ![got.buf] = "core"]
           /\ cap' = [cap EXCEPT ![got.buf] = size]
           /\ mem' = [mem EXCEPT
                         ![got.buf] = LET at(k) == Stale IN Tuple(size, at)]
           /\ trace' = Append(trace, <<"alloc", size>>)
           /\ pc' = "cursor"
           /\ UNCHANGED result
    /\ UNCHANGED <<endianVars, calls, args, link_addr, cursor, wcursor, edesc,
                   equeue, regions, submitted, late, overrun>>

\* gxio_mpipe_bdesc_t bdesc = mpipe_alloc_buffer(mpipe_env, frame_size);
\* Nothing tests the descriptor returned; the call ends here when the
\* allocator fails, its error going to the caller.
AllocBuffer ==
    /\ pc = "alloc"
    /\ LET r    == mpipe_alloc_buffer(owner)
           size == ToNat(FrameSize(args.payload_size))
           b    == r.bdesc.buf
       IN  IF ~r.raised
           THEN /\ bdesc' = r.bdesc
                /\ owner' = [owner EXCEPT ![b] = "core"]
                /\ cap' = [cap EXCEPT ![b] = size]
                /\ mem' = [mem EXCEPT
                              ![b] = LET at(k) == Stale IN Tuple(size, at)]
                /\ trace' = Append(trace, <<"alloc", size>>)
                /\ pc' = NextPc(pc)
                /\ UNCHANGED result
           ELSE /\ result' = "alloc_error"
                /\ pc' = "idle"
                /\ UNCHANGED <<bdesc, owner, cap, mem, trace>>
    /\ UNCHANGED <<endianVars, calls, args, link_addr, cursor, wcursor, edesc,
                   equeue, regions, submitted, late, overrun>>

\* buffer_cursor_t cursor = buffer_cursor_t(&bdesc, frame_size);
MakeCursor ==
    /\ pc = "cursor"
    /\ cursor' = buffer_cursor_t(bdesc.buf,
                                 ToNat(FrameSize(args.payload_size)))
    /\ pc' = NextPc(pc)
    /\ UNCHANGED <<endianVars, calls, args, link_addr, bdesc, wcursor, edesc,
                   mem, cap, owner, equeue, result, trace, regions,
                   submitted, late, overrun>>

\* cursor = _ethernet_write_header(mpipe_env, cursor, dst, ether_type);
\* A store beyond the capacity is undefined: the bytes land after the buffer,
\* and the process either survives or dies.
WriteHeader ==
    /\ pc = "header"
    /\ LET st == _ethernet_write_header(hostLE, link_addr, StateOf(cursor),
                                        args.dst, args.ether_type)
       IN  /\ cursor' = st.cur
           /\ Stored(st)
           /\ regions' = Append(regions, st.region)
           /\ IF st.over > 0
              THEN pc' \in {NextPc(pc), "crashed"}
              ELSE pc' = NextPc(pc)
    /\ trace' = Append(trace, <<"header", cursor.offset>>)
    /\ UNCHANGED <<endianVars, calls, args, link_addr, bdesc, wcursor, edesc,
                   cap, owner, equeue, result, submitted>>

\* payload_writer(cursor): the writer receives a copy of the cursor.
InvokeWriter ==
    /\ pc = "payload"
    /\ wcursor' = cursor
    /\ trace' = Append(trace, <<"payload", cursor.offset>>)
    /\ pc' = NextPc(pc)
    /\ UNCHANGED <<endianVars, calls, args, link_addr, bdesc, cursor, edesc,
                   mem, cap, owner, equeue, result, regions, submitted,
                   late, overrun>>

\* The payload writer reserves and fills its next sizeof (H) = s bytes.  A
\* write beyond the capacity lands after the buffer, and the process either
\* survives or dies.  A writer makes its first write wherever the cursor it
\* was given stands, and goes on as long as no byte went beyond the capacity.
WriterWrite ==
    /\ pc = "writing"
    /\ \/ wcursor = cursor
       \/ wcursor.offset <= wcursor.capacity /\ overrun = 0
    /\ \E s \in 1..MaxChunk :
          LET sent == wcursor.offset - cursor.offset
              st == write_with(StateOf(wcursor),
                               PayloadBytes(args.scn, sent, s))
          IN  /\ wcursor' = st.cur
              /\ Stored(st)
              /\ regions' = Append(regions, st.region)
              /\ IF st.over > 0
                 THEN pc' \in {"writing", "crashed"}
                 ELSE pc' = "writing"
    /\ UNCHANGED <<endianVars, calls, args, link_addr, bdesc, cursor, edesc,
                   cap, owner, equeue, result, trace, submitted>>

\* The payload writer returns.
WriterReturn ==
    /\ pc = "writing"
    /\ pc' = NextPc(pc)
    /\ UNCHANGED <<endianVars, calls, args, link_addr, bdesc, cursor, wcursor,
                   edesc, mem, cap, owner, equeue, result, trace,
                   regions, submitted, late, overrun>>

\* payload_writer(cursor) ends with an exception: the std::function is empty
\* (std::bad_function_call, before any write), or the writer throws.  Nothing
\* catches it in ethernet_send_frame: the call ends there, the statements
\* after it do not run, and the buffer stays with the core.
WriterThrow ==
    /\ pc \in {"payload", "writing"}
    /\ result' = "writer_error"
    /\ pc' = "idle"
    /\ UNCHANGED <<endianVars, calls, args, link_addr, bdesc, cursor, wcursor,
                   edesc, mem, cap, owner, equeue, trace, regions,
                   submitted, late, overrun>>

\* gxio_mpipe_edesc_t edesc = { 0 }; edesc.bound = 1; edesc.hwb = 1,
\* edesc.xfer_size = frame_size;
BuildEdesc ==
    /\ pc = "edesc"
    /\ edesc' = EdescFor(ToNat(FrameSize(args.payload_size)))
    /\ pc' = NextPc(pc)
    /\ UNCHANGED <<endianVars, calls, args, link_addr, bdesc, cursor, wcursor,
                   mem, cap, owner, equeue, result, trace, regions,
                   submitted, late, overrun>>

\* gxio_mpipe_edesc_set_bdesc(&edesc, bdesc);
SetBdesc ==
    /\ pc = "set_bdesc"
    /\ edesc' = gxio_mpipe_edesc_set_bdesc(edesc, bdesc)
    /\ pc' = NextPc(pc)
    /\ UNCHANGED <<endianVars, calls, args, link_addr, bdesc, cursor, wcursor,
                   mem, cap, owner, equeue, result, trace, regions,
                   submitted, late, overrun>>

\* gxio_mpipe_equeue_put(&(mpipe_env->equeue), edesc); and the return.
EqueuePut ==
    /\ pc = "put"
    /\ equeue' = Append(equeue, edesc)
    /\ owner' = [owner EXCEPT ![edesc.buf] = "hw"]
    /\ submitted' = Append(submitted, [call |-> calls, desc |-> edesc])
    /\ trace' = Append(trace, <<"submit", edesc.xfer_size>>)
    /\ result' = "sent"
    /\ pc' = NextPc(pc)
    /\ UNCHANGED <<endianVars, calls, args, link_addr, bdesc, cursor, wcursor,
                   edesc, mem, cap, regions, late, overrun>>

\* The hardware takes the oldest descriptor off the egress queue, sends its
\* frame and, the descriptor asking for it (hwb), gives the buffer back to the
\* allocator.
HwTransmit ==
    /\ equeue /= <<>>
    /\ LET d == Head(equeue)
       IN  owner' = IF d.hwb = 1
                    THEN [owner EXCEPT ![d.buf] = "allocator"]
                    ELSE owner
    /\ equeue' = Tail(equeue)
    /\ UNCHANGED <<endianVars, pc, calls, args, link_addr, bdesc, cursor,
                   wcursor, edesc, mem, cap, result, trace, regions,
                   submitted, late, overrun>>

----------------------------------------------------------------------------
\* Specifications

FrameIdle ==
    /\ pc = "idle"
    /\ calls = 0
    /\ args = NoArgs
    /\ link_addr \in LinkAddrs
    /\ bdesc = NoBdesc
    /\ cursor = NoCursor
    /\ wcursor = NoCursor
    /\ edesc = NoEdesc
    /\ mem = [b \in Buffers |-> <<>>]
    /\ cap = [b \in Buffers |-> 0]
    /\ owner = [b \in Buffers |-> "allocator"]
    /\ equeue = <<>>
    /\ result = "none"
    /\ trace = <<>>
    /\ regions = <<>>
    /\ submitted = <<>>
    /\ late = FALSE
    /\ overrun = 0

\* The frame composer, on a host of either byte order.
Init ==
    /\ hostLE \in BOOLEAN
    /\ ty = "u16"
    /\ lhs = <<>>
    /\ rhs = <<>>
    /\ out = NoOut
    /\ FrameIdle

Next ==
    \/ Call
    \/ AllocBuffer
    \/ MakeCursor
    \/ WriteHeader
    \/ InvokeWriter
    \/ WriterWrite
    \/ WriterReturn
    \/ WriterThrow
    \/ BuildEdesc
    \/ SetBdesc
    \/ EqueuePut
    \/ HwTransmit

Spec == Init /\ [][Next]_vars

\* net_t<host_t> for every host_t and byte order.
InitEndian ==
    /\ hostLE \in BOOLEAN
    /\ ty \in Types
    /\ lhs \in Values(ty)
    /\ rhs \in Values(ty)
    /\ out = NoOut
    /\ FrameIdle

NextEndian ==
    \/ CallHost
    \/ CallFromNet
    \/ CallEqNetNet
    \/ CallNeNetNet
    \/ CallEqNetHost
    \/ CallNeNetHost
    \/ CallEqHostNet
    \/ CallNeHostNet
    \/ CallAddNetNet
    \/ CallAddNetHost
    \/ CallAddHostNet
    \/ CallSubNetNet
    \/ CallSubNetHost
    \/ CallSubHostNet

SpecEndian == InitEndian /\ [][NextEndian]_vars

----------------------------------------------------------------------------
\* Properties of net_t<host_t> (checked under SpecEndian)

\* The operands are narrow enough for plain integer arithmetic.
Narrow == SizeOf(ty) <= 2

\* 2^(8 * sizeof (host_t)) of a narrow type.
Modulus == IF SizeOf(ty) = 1 THEN 256 ELSE 65536

\* C7: round trip.  For every host value v of every width, on hosts of both
\* byte orders, net_t(v).host() = v and to_host(to_network(v)) = v.
C7_RoundTrip ==
    /\ out.op = "host" => out.res = lhs
    /\ to_host(hostLE, ty, to_network(hostLE, ty, lhs)) = lhs

\* A round trip of a 64 bits value all of whose bytes differ, on a little
\* endian host, through the generic byte reversal (which did reverse it).
C7_Witness ==
    /\ out.op = "host"
    /\ hostLE
    /\ ty = "u64"
    /\ lhs = <<1, 2, 3, 4, 5, 6, 7, 8>>
    /\ net_t(hostLE, ty, lhs).net = <<8, 7, 6, 5, 4, 3, 2, 1>>
    /\ out.res = lhs

\* C8: equality consistency.  net_t(a) == net_t(b) iff a = b, net_t(a) !=
\* net_t(b) iff a /= b, and net_t(a) == a and a == net_t(a) are true.
C8_Equality ==
    /\ out.op = "eq_net_net" => (out.res <=> lhs = rhs)
    /\ out.op = "ne_net_net" => (out.res <=> lhs /= rhs)
    /\ (out.op = "eq_net_host" /\ lhs = rhs) => out.res
    /\ (out.op = "eq_host_net" /\ lhs = rhs) => out.res

\* net_t(a) == a on a little endian host, for a value whose stored bits differ
\* from the host value.
C8_Witness ==
    /\ out.op = "eq_net_host"
    /\ hostLE
    /\ ty = "u32"
    /\ lhs = rhs
    /\ net_t(hostLE, ty, lhs).net /= lhs
    /\ out.res

\* C9: arithmetic.  net_t(a) + net_t(b) = net_t(a + b) and net_t(a) - net_t(b)
\* = net_t(a - b), the host arithmetic being modulo 2^w; the stored bytes are
\* the big endian bytes of the host order sum or difference.
C9_Arithmetic ==
    /\ out.op = "add_net_net" =>
          /\ out.res = net_t(hostLE, ty, HostAdd(lhs, rhs)).net
          /\ ToMem(hostLE, out.res) = HostAdd(lhs, rhs)
          /\ Narrow => ToNat(ToMem(hostLE, out.res))
                          = (ToNat(lhs) + ToNat(rhs)) % Modulus
    /\ out.op = "sub_net_net" =>
          /\ out.res = net_t(hostLE, ty, HostSub(lhs, rhs)).net
          /\ ToMem(hostLE, out.res) = HostSub(lhs, rhs)
          /\ Narrow => ToNat(ToMem(hostLE, out.res))
                          = (ToNat(lhs) - ToNat(rhs) + Modulus) % Modulus

\* A 16 bits sum that overflows, on a little endian host: 0xFFFF + 0x0100.
C9_Witness ==
    /\ out.op = "add_net_net"
    /\ hostLE
    /\ ty = "u16"
    /\ lhs = <<255, 255>>
    /\ rhs = <<1, 0>>
    /\ out.res = <<255, 0>>

----------------------------------------------------------------------------
\* Properties of ethernet_send_frame (checked under Spec)

IsPrefix(s, t) == Len(s) <= Len(t) /\ s = SubSeq(t, 1, Len(s))

RECURSIVE SumSizes(_)
SumSizes(rs) == IF rs = <<>> THEN 0 ELSE Head(rs).size + SumSizes(Tail(rs))

\* Number of descriptors submitted by call c.
SubmitsOf(c) == Cardinality({i \in DOMAIN submitted : submitted[i].call = c})

\* The core is past the header write of the current call.
HeaderWritten ==
    \/ pc \in {"payload", "writing", "edesc", "set_bdesc", "put", "crashed"}
    \/ pc = "idle" /\ result \in {"sent", "writer_error"}

\* The payload writer has returned.
WriterReturned ==
    \/ pc \in {"edesc", "set_bdesc", "put"}
    \/ pc = "idle" /\ result = "sent"

\* A size_t widened by one byte: sums of two of them are exact.
Wide(v) == <<0>> \o v

\* n is the number 14 + payload_size.
IsHeaderPlus(n, payload_size) ==
    Wide(SizeT(n)) = HostAdd(Wide(SizeT(ETHER_HDR_LEN)), Wide(payload_size))

\* The steps of a call that got its buffer, of n bytes.
ExpectedSteps(n) ==
    << <<"alloc", n>>, <<"header", 0>>, <<"payload", ETHER_HDR_LEN>>,
       <<"submit", n>> >>

\* No buffer is free.
Exhausted == \A x \in Buffers : owner[x] /= "allocator"

\* C1: in a call whose allocation succeeds the steps are, in this order and
\* once each: allocate 14 + payload_size bytes, write the header, invoke the
\* payload writer with a cursor at offset 14, submit one descriptor; the submit
\* follows the return of the writer; no second allocation, no second submit.
\* The code does not keep it: a call whose payload writer throws ends without
\* the submit, and the size allocated is the size_t sum, which wraps.
C1_StepOrder ==
    bdesc.c = "valid" =>
        /\ trace /= <<>>
        /\ IsHeaderPlus(trace[1][2], args.payload_size)
        /\ IsPrefix(trace, ExpectedSteps(trace[1][2]))
        /\ pc = "idle" => trace = ExpectedSteps(trace[1][2])
        /\ pc \in {"payload", "writing", "crashed"} =>
              \A i \in DOMAIN trace : trace[i][1] /= "submit"
        /\ Cardinality({x \in Buffers : owner[x] = "core"}) <= 1
        /\ SubmitsOf(calls) <= 1

\* C2: when the allocator reports exhaustion the call ends there with an error
\* its caller observes: no byte of any buffer is written, neither the header
\* write nor the payload writer runs, no descriptor is submitted.
C2_AllocFailure ==
    /\ [](result = "alloc_error" =>
            /\ pc = "idle"
            /\ trace = <<>>
            /\ regions = <<>>
            /\ overrun = 0
            /\ bdesc = NoBdesc
            /\ SubmitsOf(calls) = 0)
    /\ [][(pc = "alloc" /\ Exhausted /\ pc' /= pc) =>
            /\ result' = "alloc_error"
            /\ pc' = "idle"
            /\ mem' = mem
            /\ owner' = owner
            /\ equeue' = equeue
            /\ submitted' = submitted]_vars

\* The second call failed: the only buffer is still on the egress queue, the
\* frame of the first call in it.
C2_Witness ==
    /\ calls = 2
    /\ result = "alloc_error"
    /\ Exhausted
    /\ Len(equeue) = 1
    /\ Len(submitted) = 1
    /\ Len(mem[submitted[1].desc.buf]) >= ETHER_HDR_LEN

\* The descriptor the current call has submitted.
Submitted == {i \in DOMAIN submitted : submitted[i].call = calls}

\* C3: the buffer a call submits holds, from its address on, dst in bytes
\* 0..5, the link address in bytes 6..11, the ethertype as given (not swapped)
\* in bytes 12..13, which are the big endian bytes of the host order ethertype,
\* then the L bytes the payload writer wrote, unchanged; the payload write
\* leaves the header bytes as they are.
C3_FrameContent ==
    /\ \A i \in Submitted :
          LET m == mem[submitted[i].desc.buf]
              L == wcursor.offset - ETHER_HDR_LEN
          IN  /\ submitted[i].desc.buf = bdesc.buf
              /\ Len(m) >= ETHER_HDR_LEN + L
              /\ SubSeq(m, 1, 6) = args.dst
              /\ SubSeq(m, 7, 12) = link_addr
              /\ SubSeq(m, 13, 14) = ToMem(hostLE, args.ether_type)
              /\ SubSeq(m, 13, 14) = args.scn.ethertype
              /\ \A k \in 1..L :
                    m[ETHER_HDR_LEN + k] = PayloadByte(args.scn, k - 1)
    /\ (pc \in {"writing", "edesc", "set_bdesc", "put"}) =>
          SubSeq(mem[bdesc.buf], 1, ETHER_HDR_LEN)
              = args.dst \o link_addr \o ToMem(hostLE, args.ether_type)

\* The frame of the scenario of the specification, submitted from a little
\* endian host: AA:BB:CC:DD:EE:FF, 11:22:33:44:55:66, 08 00, then 45 00.
C3_Witness ==
    /\ pc = "idle"
    /\ result = "sent"
    /\ hostLE
    /\ args.ether_type = <<0, 8>>
    /\ Submitted /= {}
    /\ wcursor.offset = 16
    /\ mem[submitted[Len(submitted)].desc.buf]
          = <<170, 187, 204, 221, 238, 255, 17, 34, 51, 68, 85, 102, 8, 0,
              69, 0>>

\* C4: the buffer a call allocates goes from the allocator to the core to the
\* egress queue: when the call has ended the buffer is referenced by exactly
\* one submitted descriptor and is not with the core any more; the core does
\* not access a buffer it has submitted.  The code does not keep it: a call
\* whose payload writer throws ends with the buffer still with the core and
\* no descriptor that references it.
C4_Ownership ==
    /\ ~late
    /\ \A c \in 1..calls : SubmitsOf(c) <= 1
    /\ \A x \in Buffers : owner[x] = "core" => x = bdesc.buf /\ pc /= "idle"
    /\ (bdesc.c = "valid" /\ pc = "idle") =>
          /\ SubmitsOf(calls) = 1
          /\ submitted[Len(submitted)].desc.buf = bdesc.buf
          /\ owner[bdesc.buf] /= "core"

\* C5: the cursor has capacity 14 + payload_size; the header write fits for
\* every payload_size, 0 included; a payload writer that writes exactly
\* payload_size bytes ends at the capacity and no write went beyond it.  The
\* code does not keep it: the capacity is the size_t sum, which wraps for the
\* 14 largest payload_size, and the header is then written beyond it.
C5_Capacity ==
    /\ cursor /= NoCursor =>
          IsHeaderPlus(cursor.capacity, args.payload_size)
    /\ regions /= <<>> =>
          /\ regions[1] = [start |-> 0, size |-> ETHER_HDR_LEN]
          /\ regions[1].start + regions[1].size <= cursor.capacity
    /\ (WriterReturned
        /\ IsHeaderPlus(wcursor.offset, args.payload_size)) =>
          /\ wcursor.offset = wcursor.capacity
          /\ overrun = 0
          /\ \A i \in DOMAIN regions :
                regions[i].start + regions[i].size <= wcursor.capacity

\* C6: after write_with calls reserving s1..sN the offset is s1 + ... + sN,
\* the offset never decreases, the reserved regions are pairwise disjoint and
\* in increasing order; _ethernet_write_header advances the cursor by 14.
C6_CursorMonotone ==
    /\ [](/\ \A i \in DOMAIN regions, j \in DOMAIN regions :
                i < j => regions[i].start + regions[i].size
                            <= regions[j].start
          /\ \A i \in DOMAIN regions : regions[i].start >= 0
          /\ HeaderWritten => cursor.offset = ETHER_HDR_LEN
          /\ (HeaderWritten /\ wcursor /= NoCursor) =>
                wcursor.offset = SumSizes(regions))
    /\ [][calls' = calls =>
            /\ cursor'.offset >= cursor.offset
            /\ wcursor'.offset >= wcursor.offset]_vars

\* The header and two payload writes of 1 byte, within a buffer of 16 bytes.
C6_Witness ==
    /\ regions = << [start |-> 0, size |-> 14], [start |-> 14, size |-> 1],
                    [start |-> 15, size |-> 1] >>
    /\ cap[bdesc.buf] = 16
    /\ wcursor.offset = 16
    /\ cursor.offset = 14
    /\ overrun = 0

\* C10: every descriptor submitted is bound and asks for the hardware release
\* of its buffer; the one of the current call references the buffer allocated
\* by the call and transfers 14 + payload_size bytes, whatever the payload
\* writer wrote.  The code does not keep it: the transfer size is the size_t
\* sum, which wraps.
C10_Descriptor ==
    \A i \in DOMAIN submitted :
        LET d == submitted[i].desc
        IN  /\ d.bound = 1
            /\ d.hwb = 1
            /\ d.buf \in Buffers
            /\ submitted[i].call = calls =>
                  /\ d.buf = bdesc.buf
                  /\ IsHeaderPlus(d.xfer_size, args.payload_size)

====
